---- MODULE Spec2Model ----
(***************************************************************************)
(* Model of backend/lambda_function.py: the Lambda handler that issues a   *)
(* pre-signed S3 upload URL.  Python str values are TLA+ strings, JSON     *)
(* documents are tagged records, and json.dumps / json.loads work on the   *)
(* characters of the text.                                                 *)
(***************************************************************************)
EXTENDS Integers, Sequences, FiniteSets, TLC

(***************************************************************************)
(* Bounds of the model.                                                    *)
(***************************************************************************)
\* Number of invocations (isolated execution contexts) that may overlap.
NumInvocations == 2
\* Number of seconds the wall clock may advance during a run.
MaxTicks == 1

(***************************************************************************)
(* Python / JSON values.                                                   *)
(***************************************************************************)
None == [t |-> "NoneType"]
PyStr(s) == [t |-> "str", s |-> s]
PyInt(n) == [t |-> "int", n |-> n]
PyBool(b) == [t |-> "bool", b |-> b]
PyList(a) == [t |-> "list", a |-> a]
\* A dict is its items in insertion order, keys unique.
PyDict(m) == [t |-> "dict", m |-> m]
Item(k, v) == [k |-> k, v |-> v]

\* A local variable that has not been assigned yet.
Unset == [t |-> "unset"]

CharAt(s, i) == IF i >= 1 /\ i <= Len(s) THEN SubSeq(s, i, i) ELSE ""

\* s[i:].startswith(w), i counted from 1
StartsWith(s, i, w) ==
    i >= 1 /\ i + Len(w) - 1 <= Len(s) /\ SubSeq(s, i, i + Len(w) - 1) = w

Digits == <<"0", "1", "2", "3", "4", "5", "6", "7", "8", "9">>
IsDigit(c) == \E d \in 1..10 : Digits[d] = c
DigitVal(c) == (CHOOSE d \in 1..10 : Digits[d] = c) - 1

\* dict.__contains__ and dict.get(k) (None when the key is absent)
HasKey(d, k) == \E j \in 1..Len(d.m) : d.m[j].k = k
DictGet(d, k) ==
    IF HasKey(d, k) THEN d.m[CHOOSE j \in 1..Len(d.m) : d.m[j].k = k].v ELSE None
\* d[k] = v: a key already present keeps its place
DictSet(d, k, v) ==
    IF HasKey(d, k)
    THEN PyDict([j \in 1..Len(d.m) |-> IF d.m[j].k = k THEN Item(k, v) ELSE d.m[j]])
    ELSE PyDict(Append(d.m, Item(k, v)))

\* Variant: only None counts as missing ("file_name is None").
TruthyOnlyNone(v) == v.t # "NoneType"

\* bool(v), as tested by "not file_name"
Truthy(v) ==
    CASE v.t = "NoneType" -> FALSE
      [] v.t = "str" -> v.s # ""
      [] v.t = "int" -> v.n # 0
      [] v.t = "bool" -> v.b
      [] v.t = "list" -> Len(v.a) > 0
      [] v.t = "dict" -> Len(v.m) > 0

(***************************************************************************)
(* json.dumps with the default separators (", " and ": ").                 *)
(***************************************************************************)
\* the first index from i on of a character that is " or \, 0 if none
NextSpecial(s, i) ==
    LET at == {j \in i..Len(s) : CharAt(s, j) \in {"\"", "\\"}}
    IN  IF at = {} THEN 0 ELSE CHOOSE j \in at : \A k \in at : j <= k

\* s[i:] with " and \ escaped
RECURSIVE EscapeFrom(_, _)
EscapeFrom(s, i) ==
    IF i > Len(s) THEN ""
    ELSE LET j == NextSpecial(s, i)
         IN  IF j = 0 THEN SubSeq(s, i, Len(s))
             ELSE SubSeq(s, i, j - 1) \o "\\" \o CharAt(s, j) \o EscapeFrom(s, j + 1)

EncodeString(s) == "\"" \o EscapeFrom(s, 1) \o "\""

RECURSIVE Dumps(_), DumpsItems(_, _), DumpsElems(_, _)
Dumps(v) ==
    CASE v.t = "NoneType" -> "null"
      [] v.t = "str" -> EncodeString(v.s)
      [] v.t = "int" -> ToString(v.n)
      [] v.t = "bool" -> IF v.b THEN "true" ELSE "false"
      [] v.t = "list" -> "[" \o DumpsElems(v.a, 1) \o "]"
      [] v.t = "dict" -> "{" \o DumpsItems(v.m, 1) \o "}"
DumpsItems(m, j) ==
    IF j > Len(m) THEN ""
    ELSE (IF j > 1 THEN ", " ELSE "")
         \o EncodeString(m[j].k) \o ": " \o Dumps(m[j].v)
         \o DumpsItems(m, j + 1)
DumpsElems(a, j) ==
    IF j > Len(a) THEN ""
    ELSE (IF j > 1 THEN ", " ELSE "") \o Dumps(a[j]) \o DumpsElems(a, j + 1)

(***************************************************************************)
(* json.loads: a parse yields [ok, v, i, err], i the next unread index and *)
(* err the JSONDecodeError message when ok is FALSE.                       *)
(***************************************************************************)
Parsed(v, i) == [ok |-> TRUE, v |-> v, i |-> i, err |-> ""]
DecodeError(what, i) ==
    [ok |-> FALSE, v |-> None, i |-> i,
     err |-> what \o ": line 1 column " \o ToString(i)
                  \o " (char " \o ToString(i - 1) \o ")"]

RECURSIVE SkipWs(_, _)
SkipWs(s, i) == IF CharAt(s, i) = " " THEN SkipWs(s, i + 1) ELSE i

\* the string whose opening quote is at index start, read from index i on
\* with acc already read; the escapes \" \\ and \/ are the ones decoded
RECURSIVE ScanString(_, _, _, _)
ScanString(s, i, acc, start) ==
    LET j == NextSpecial(s, i)
    IN  IF j = 0 THEN DecodeError("Unterminated string starting at", start)
        ELSE IF CharAt(s, j) = "\"" THEN Parsed(PyStr(acc \o SubSeq(s, i, j - 1)), j + 1)
        ELSE LET e == CharAt(s, j + 1)
             IN  IF e = "\"" \/ e = "\\" \/ e = "/"
                 THEN ScanString(s, j + 2, acc \o SubSeq(s, i, j - 1) \o e, start)
                 ELSE IF e = ""
                 THEN DecodeError("Unterminated string starting at", start)
                 ELSE DecodeError("Invalid \\escape", j)

RECURSIVE ScanInt(_, _, _)
ScanInt(s, i, acc) ==
    IF IsDigit(CharAt(s, i))
    THEN ScanInt(s, i + 1, 10 * acc + DigitVal(CharAt(s, i)))
    ELSE Parsed(PyInt(acc), i)

RECURSIVE ParseValue(_, _), ParseItems(_, _, _), ParseElems(_, _, _)
\* a value starting at index i (leading whitespace already skipped)
ParseValue(s, i) ==
    LET c == CharAt(s, i)
    IN  IF c = "\"" THEN ScanString(s, i + 1, "", i)
        ELSE IF c = "{"
             THEN LET j == SkipWs(s, i + 1)
                  IN  IF CharAt(s, j) = "}" THEN Parsed(PyDict(<<>>), j + 1)
                      ELSE ParseItems(s, j, PyDict(<<>>))
        ELSE IF c = "["
             THEN LET j == SkipWs(s, i + 1)
                  IN  IF CharAt(s, j) = "]" THEN Parsed(PyList(<<>>), j + 1)
                      ELSE ParseElems(s, j, <<>>)
        ELSE IF StartsWith(s, i, "null") THEN Parsed(None, i + 4)
        ELSE IF StartsWith(s, i, "true") THEN Parsed(PyBool(TRUE), i + 4)
        ELSE IF StartsWith(s, i, "false") THEN Parsed(PyBool(FALSE), i + 5)
        ELSE IF IsDigit(c) THEN ScanInt(s, i, 0)
        ELSE IF c = "-" /\ IsDigit(CharAt(s, i + 1))
             THEN LET r == ScanInt(s, i + 1, 0) IN Parsed(PyInt(0 - r.v.n), r.i)
        ELSE DecodeError("Expecting value", i)
\* the members of an object from the key at index i on
ParseItems(s, i, d) ==
    IF CharAt(s, i) # "\""
    THEN DecodeError("Expecting property name enclosed in double quotes", i)
    ELSE LET k == ScanString(s, i + 1, "", i)
         IN  IF ~k.ok THEN k
             ELSE LET c == SkipWs(s, k.i)
                  IN  IF CharAt(s, c) # ":"
                      THEN DecodeError("Expecting ':' delimiter", c)
                      ELSE LET v == ParseValue(s, SkipWs(s, c + 1))
                           IN  IF ~v.ok THEN v
                               ELSE LET d2 == DictSet(d, k.v.s, v.v)
                                        e == SkipWs(s, v.i)
                                    IN  IF CharAt(s, e) = "}"
                                        THEN Parsed(d2, e + 1)
                                        ELSE IF CharAt(s, e) = ","
                                        THEN ParseItems(s, SkipWs(s, e + 1), d2)
                                        ELSE DecodeError("Expecting ',' delimiter", e)
\* the elements of an array from the value at index i on
ParseElems(s, i, a) ==
    LET v == ParseValue(s, i)
    IN  IF ~v.ok THEN v
        ELSE LET e == SkipWs(s, v.i)
             IN  IF CharAt(s, e) = "]" THEN Parsed(PyList(Append(a, v.v)), e + 1)
                 ELSE IF CharAt(s, e) = ","
                 THEN ParseElems(s, SkipWs(s, e + 1), Append(a, v.v))
                 ELSE DecodeError("Expecting ',' delimiter", e)

Loads(s) ==
    LET r == ParseValue(s, SkipWs(s, 1))
    IN  IF ~r.ok THEN r
        ELSE LET e == SkipWs(s, r.i)
             IN  IF e <= Len(s) THEN DecodeError("Extra data", e) ELSE r

(***************************************************************************)
(* str(v), as the f-string of the key applies it to file_name.  repr of a  *)
(* str is written with single quotes (the model's strings hold none).      *)
(***************************************************************************)
RECURSIVE Repr(_), ReprItems(_, _), ReprElems(_, _)
Repr(v) ==
    CASE v.t = "NoneType" -> "None"
      [] v.t = "str" -> "'" \o v.s \o "'"
      [] v.t = "int" -> ToString(v.n)
      [] v.t = "bool" -> IF v.b THEN "True" ELSE "False"
      [] v.t = "list" -> "[" \o ReprElems(v.a, 1) \o "]"
      [] v.t = "dict" -> "{" \o ReprItems(v.m, 1) \o "}"
ReprItems(m, j) ==
    IF j > Len(m) THEN ""
    ELSE (IF j > 1 THEN ", " ELSE "")
         \o Repr(PyStr(m[j].k)) \o ": " \o Repr(m[j].v) \o ReprItems(m, j + 1)
ReprElems(a, j) ==
    IF j > Len(a) THEN ""
    ELSE (IF j > 1 THEN ", " ELSE "") \o Repr(a[j]) \o ReprElems(a, j + 1)

Format(v) == IF v.t = "str" THEN v.s ELSE Repr(v)

(***************************************************************************)
(* datetime.utcnow().strftime('%Y-%m-%dT%H-%M-%S'), the clock counted in   *)
(* seconds since 1970-01-01T00:00:00 UTC.                                  *)
(***************************************************************************)
Pad2(n) == IF n < 10 THEN "0" \o ToString(n) ELSE ToString(n)

\* the proleptic Gregorian date of day number days (day 0 is 1970-01-01)
CivilFromDays(days) ==
    LET z == days + 719468
        era == z \div 146097
        doe == z - era * 146097
        yoe == (doe - doe \div 1460 + doe \div 36524 - doe \div 146096) \div 365
        doy == doe - (365 * yoe + yoe \div 4 - yoe \div 100)
        mp == (5 * doy + 2) \div 153
        d == doy - (153 * mp + 2) \div 5 + 1
        m == IF mp < 10 THEN mp + 3 ELSE mp - 9
    IN  [year |-> yoe + era * 400 + (IF m <= 2 THEN 1 ELSE 0), month |-> m, day |-> d]

Strftime(now) ==
    LET date == CivilFromDays(now \div 86400)
        sod == now % 86400
    IN  ToString(date.year) \o "-" \o Pad2(date.month) \o "-" \o Pad2(date.day)
        \o "T" \o Pad2(sod \div 3600) \o "-" \o Pad2((sod % 3600) \div 60)
        \o "-" \o Pad2(sod % 60)

(***************************************************************************)
(* Process-wide configuration, read from the environment at import.        *)
(***************************************************************************)
\* int(s) of a decimal numeral
RECURSIVE IntOfFrom(_, _, _)
IntOfFrom(s, i, acc) ==
    IF i > Len(s) THEN acc ELSE IntOfFrom(s, i + 1, 10 * acc + DigitVal(CharAt(s, i)))
IntOf(s) == IntOfFrom(s, 1, 0)

DefaultExpiration == 3600

\* The environments the function is deployed with.
Environments ==
    { ("BUCKET_NAME" :> "my-bucket"),
      ("BUCKET_NAME" :> "uploads" @@ "URL_EXPIRATION" :> "900") }

\* 2025-10-21T10:30:00 UTC, the time of the docstring's example key.
ExampleTime == 1761042600

\* The clock when the first invocation may arrive.
StartTimes == { ExampleTime - 1 }

Invocations == 1..NumInvocations

VARIABLES
    environ,        \* os.environ of the process
    clock,          \* the wall clock, in seconds since the epoch
    pc,             \* each invocation's position in lambda_handler
    event,          \* the payload each invocation was given
    body,           \* local variable body
    file_name,      \* local variable file_name
    key,            \* local variable key
    calls,          \* the generate_presigned_url calls each invocation made
    outcome,        \* what the collaborator answered
    readAt,         \* the clock reading datetime.utcnow() returned
    exit,           \* the return statement an invocation left through
    response        \* the value lambda_handler returned

vars == <<environ, clock, pc, event, body, file_name, key, calls, outcome,
          readAt, exit, response>>

BUCKET_NAME == environ["BUCKET_NAME"]

\* Variant: the environment's URL_EXPIRATION is not read.
URL_EXPIRATIONDefaultOnly == DefaultExpiration

URL_EXPIRATION ==
    IF "URL_EXPIRATION" \in DOMAIN environ
    THEN IntOf(environ["URL_EXPIRATION"])
    ELSE DefaultExpiration

(***************************************************************************)
(* create_response                                                         *)
(***************************************************************************)
Headers ==
    PyDict(<<Item("Content-Type", PyStr("application/json")),
             Item("Access-Control-Allow-Origin", PyStr("*")),
             Item("Access-Control-Allow-Headers", PyStr("Content-Type")),
             Item("Access-Control-Allow-Methods", PyStr("POST, OPTIONS"))>>)

\* Variant: the CORS headers only on a success.
create_responseCorsOnSuccess(status_code, b) ==
    PyDict(<<Item("statusCode", PyInt(status_code)),
             Item("headers",
                  IF status_code = 200 THEN Headers
                  ELSE PyDict(<<Item("Content-Type", PyStr("application/json"))>>)),
             Item("body", PyStr(Dumps(b)))>>)

create_response(status_code, b) ==
    PyDict(<<Item("statusCode", PyInt(status_code)),
             Item("headers", Headers),
             Item("body", PyStr(Dumps(b)))>>)

(***************************************************************************)
(* Exceptions: [type, msg], msg being str(e).                              *)
(***************************************************************************)
Exc(type, msg) == [type |-> type, msg |-> msg]
AttributeError(v, name) ==
    Exc("AttributeError", "'" \o v.t \o "' object has no attribute '" \o name \o "'")
\* The classes "except Exception" catches, among those raised here.
ExceptionClasses ==
    {"ClientError", "AttributeError", "JSONDecodeError", "NoCredentialsError"}

Returned(v) == [ok |-> TRUE, v |-> v]
Raised(e) == [ok |-> FALSE, e |-> e]

(***************************************************************************)
(* The collaborator: s3_client.generate_presigned_url.  It answers with a  *)
(* URL or raises; which of the two is not decided by the handler.          *)
(***************************************************************************)
SigningCall(bucket, k, expires) ==
    [ClientMethod |-> "put_object", Bucket |-> bucket, Key |-> k,
     ExpiresIn |-> expires, HttpMethod |-> "PUT"]

PresignedUrl(call) ==
    "https://" \o call.Bucket \o ".s3.amazonaws.com/" \o call.Key
    \o "?X-Amz-Expires=" \o ToString(call.ExpiresIn) \o "&X-Amz-Signature=5d1c"

ClientErrorDetail ==
    "An error occurred (AccessDenied) when calling the PutObject operation: Access Denied"

CollaboratorOutcomes(call) ==
    { Returned(PresignedUrl(call)),
      Raised(Exc("ClientError", ClientErrorDetail)),
      Raised(Exc("NoCredentialsError", "Unable to locate credentials")) }

(***************************************************************************)
(* Request payloads.                                                       *)
(***************************************************************************)
\* Direct shape: {"fileName": ..., "contentType": ...}, either field optional.
DirectPayloads ==
    { PyDict(<<>>),
      PyDict(<<Item("fileName", None)>>),
      PyDict(<<Item("fileName", PyStr(""))>>),
      PyDict(<<Item("fileName", PyStr("photo.jpg")),
               Item("contentType", PyStr("image/jpeg"))>>) }

\* Wrapped shape: {"body": "<JSON text of the direct shape>"}
Wrapped(d) == PyDict(<<Item("body", PyStr(Dumps(d)))>>)

\* A direct payload whose body is no text, and payloads of neither shape.
OtherPayloads ==
    { PyDict(<<Item("body", PyDict(<<>>))>>),
      PyDict(<<Item("body", PyStr("{\"fileName\": "))>>),
      PyDict(<<Item("body", PyStr("[\"photo.jpg\"]"))>>),
      PyList(<<PyStr("photo.jpg")>>) }

Events == DirectPayloads \cup { Wrapped(d) : d \in DirectPayloads } \cup OtherPayloads

(***************************************************************************)
(* lambda_handler, statement by statement.                                 *)
(***************************************************************************)
\* Variant: the payload is never unwrapped.
ParseBodyDirectOnly(ev) ==
    IF ev.t # "dict" THEN Raised(AttributeError(ev, "get")) ELSE Returned(ev)

\* Variant: a body that cannot be read counts as an empty request.
ParseBodyLenient(ev) ==
    IF ev.t # "dict" THEN Returned(PyDict(<<>>))
    ELSE IF DictGet(ev, "body").t = "str"
    THEN LET r == Loads(DictGet(ev, "body").s)
         IN  IF r.ok /\ r.v.t = "dict" THEN Returned(r.v) ELSE Returned(PyDict(<<>>))
    ELSE Returned(ev)

\* lines 41-46: the body the fields are read from
ParseBody(ev) ==
    IF ev.t # "dict" THEN Raised(AttributeError(ev, "get"))
    ELSE IF DictGet(ev, "body").t = "str"
    THEN LET r == Loads(DictGet(ev, "body").s)
         IN  IF r.ok THEN Returned(r.v) ELSE Raised(Exc("JSONDecodeError", r.err))
    ELSE Returned(ev)

\* ParseBody, tabulated over the payloads of the model.
ParsedBody == [ev \in Events |-> ParseBody(ev)]

\* line 49: body.get('fileName')
GetFileName(b) ==
    IF b.t # "dict" THEN Raised(AttributeError(b, "get"))
    ELSE Returned(DictGet(b, "fileName"))

\* Variant: the name goes before the timestamp.
DeriveKeyAtNameFirst(now, name) == Format(name) \o "-" \o Strftime(now)

\* lines 60-61
DeriveKeyAt(now, name) == Strftime(now) \o "-" \o Format(name)

\* lines 55-57
ValidationResponse ==
    create_response(400, PyDict(<<Item("error", PyStr("fileName is required"))>>))

\* lines 79-83
GrantResponse(url, k) ==
    create_response(200, PyDict(<<Item("uploadUrl", PyStr(url)),
                                  Item("key", PyStr(k)),
                                  Item("bucket", PyStr(BUCKET_NAME))>>))

\* Variant: "except Exception" comes first and shadows "except ClientError".
HandleCatchAllFirst(e) ==
    IF e.type \in ExceptionClasses
    THEN Returned(create_response(500,
             PyDict(<<Item("error", PyStr("Internal server error")),
                      Item("message", PyStr(e.msg))>>)))
    ELSE Raised(e)

\* Variant: only "except ClientError".
HandleClientErrorOnly(e) ==
    IF e.type = "ClientError"
    THEN Returned(create_response(500,
             PyDict(<<Item("error", PyStr("Failed to generate upload URL")),
                      Item("message", PyStr(e.msg))>>)))
    ELSE Raised(e)

\* lines 85-97: the except clauses, in order; no clause matching, the
\* exception leaves the handler
Handle(e) ==
    IF e.type = "ClientError"
    THEN Returned(create_response(500,
             PyDict(<<Item("error", PyStr("Failed to generate upload URL")),
                      Item("message", PyStr(e.msg))>>)))
    ELSE IF e.type \in ExceptionClasses
    THEN Returned(create_response(500,
             PyDict(<<Item("error", PyStr("Internal server error")),
                      Item("message", PyStr(e.msg))>>)))
    ELSE Raised(e)

\* An exception raised inside the try block by invocation i.
Except(i, e) ==
    LET h == Handle(e)
    IN  /\ pc' = [pc EXCEPT ![i] = IF h.ok THEN "done" ELSE "raised"]
        /\ response' = [response EXCEPT ![i] = IF h.ok THEN h.v ELSE Unset]
        /\ exit' = [exit EXCEPT ![i] = IF h.ok THEN "failure" ELSE "none"]

Init ==
    /\ environ \in Environments
    /\ clock \in StartTimes
    /\ pc = [i \in Invocations |-> "idle"]
    /\ event = [i \in Invocations |-> Unset]
    /\ body = [i \in Invocations |-> Unset]
    /\ file_name = [i \in Invocations |-> Unset]
    /\ key = [i \in Invocations |-> ""]
    /\ calls = [i \in Invocations |-> <<>>]
    /\ outcome = [i \in Invocations |-> "none"]
    /\ readAt = [i \in Invocations |-> 0]
    /\ exit = [i \in Invocations |-> "none"]
    /\ response = [i \in Invocations |-> Unset]

\* The runtime calls lambda_handler(event, context), invocations numbered in
\* their order of arrival; lines 41-46.
Parse(i) ==
    /\ pc[i] = "idle"
    /\ \A j \in 1..(i - 1) : pc[j] # "idle"
    /\ \E ev \in Events :
        /\ event' = [event EXCEPT ![i] = ev]
        /\ LET r == ParsedBody[ev]
           IN  IF r.ok
               THEN /\ body' = [body EXCEPT ![i] = r.v]
                    /\ pc' = [pc EXCEPT ![i] = "Validate"]
                    /\ UNCHANGED <<exit, response>>
               ELSE /\ Except(i, r.e)
                    /\ UNCHANGED body
    /\ UNCHANGED <<environ, clock, file_name, key, calls, outcome, readAt>>

\* lines 49-57
Validate(i) ==
    /\ pc[i] = "Validate"
    /\ LET r == GetFileName(body[i])
       IN  IF ~r.ok
           THEN /\ Except(i, r.e)
                /\ UNCHANGED file_name
           ELSE /\ file_name' = [file_name EXCEPT ![i] = r.v]
                /\ IF ~Truthy(r.v)
                   THEN /\ response' = [response EXCEPT ![i] = ValidationResponse]
                        /\ exit' = [exit EXCEPT ![i] = "validation"]
                        /\ pc' = [pc EXCEPT ![i] = "done"]
                   ELSE /\ pc' = [pc EXCEPT ![i] = "DeriveKey"]
                        /\ UNCHANGED <<exit, response>>
    /\ UNCHANGED <<environ, clock, event, body, key, calls, outcome, readAt>>

\* lines 60-61
DeriveKey(i) ==
    /\ pc[i] = "DeriveKey"
    /\ readAt' = [readAt EXCEPT ![i] = clock]
    /\ key' = [key EXCEPT ![i] = DeriveKeyAt(clock, file_name[i])]
    /\ pc' = [pc EXCEPT ![i] = "SignRequest"]
    /\ UNCHANGED <<environ, clock, event, body, file_name, calls, outcome, exit,
                   response>>

\* Variant: a signing call that raises is made a second time.
SignRequestRetry(i) ==
    /\ pc[i] = "SignRequest"
    /\ LET call == SigningCall(BUCKET_NAME, key[i], URL_EXPIRATION)
       IN  \E r \in CollaboratorOutcomes(call) :
                IF r.ok
                THEN /\ calls' = [calls EXCEPT ![i] = Append(@, call)]
                     /\ outcome' = [outcome EXCEPT ![i] = "url"]
                     /\ response' = [response EXCEPT ![i] = GrantResponse(r.v, key[i])]
                     /\ exit' = [exit EXCEPT ![i] = "success"]
                     /\ pc' = [pc EXCEPT ![i] = "done"]
                ELSE /\ calls' = [calls EXCEPT ![i] = Append(Append(@, call), call)]
                     /\ outcome' = [outcome EXCEPT ![i] = r.e.type]
                     /\ Except(i, r.e)
    /\ UNCHANGED <<environ, clock, event, body, file_name, key, readAt>>

\* lines 66-83: the signing call and, when it returns, the grant
SignRequest(i) ==
    /\ pc[i] = "SignRequest"
    /\ LET call == SigningCall(BUCKET_NAME, key[i], URL_EXPIRATION)
       IN  /\ calls' = [calls EXCEPT ![i] = Append(@, call)]
           /\ \E r \in CollaboratorOutcomes(call) :
                IF r.ok
                THEN /\ outcome' = [outcome EXCEPT ![i] = "url"]
                     /\ response' = [response EXCEPT ![i] = GrantResponse(r.v, key[i])]
                     /\ exit' = [exit EXCEPT ![i] = "success"]
                     /\ pc' = [pc EXCEPT ![i] = "done"]
                ELSE /\ outcome' = [outcome EXCEPT ![i] = r.e.type]
                     /\ Except(i, r.e)
    /\ UNCHANGED <<environ, clock, event, body, file_name, key, readAt>>

\* A second passes.
Tick ==
    /\ \E t \in StartTimes : clock < t + MaxTicks
    /\ clock' = clock + 1
    /\ UNCHANGED <<environ, pc, event, body, file_name, key, calls, outcome,
                   readAt, exit, response>>

\* The statements of an invocation that has started.
Proceed(i) == Validate(i) \/ DeriveKey(i) \/ SignRequest(i)

Next == (\E i \in Invocations : Parse(i) \/ Proceed(i)) \/ Tick

Spec == Init /\ [][Next]_vars

\* The handler is straight-line synchronous code and the signing call
\* returns or raises: an invocation that has started keeps running.
LiveSpec == Spec /\ \A i \in Invocations : WF_vars(Proceed(i))

(***************************************************************************)
(* Vocabulary of the properties.                                           *)
(***************************************************************************)
Done(i) == pc[i] = "done"
StatusCode(i) == DictGet(response[i], "statusCode").n
BodyText(i) == DictGet(response[i], "body").s

\* The fields a payload carries: those of the JSON text in body for the
\* wrapped shape, its own for the direct shape.
RequestFields(ev) ==
    IF ev.t = "dict" /\ DictGet(ev, "body").t = "str"
    THEN LET r == Loads(DictGet(ev, "body").s) IN IF r.ok THEN r.v ELSE Unset
    ELSE ev
FieldsOf == [ev \in Events |-> RequestFields(ev)]

IsRequest(ev) == ev \in Events /\ FieldsOf[ev].t = "dict"
FileNameOf(ev) == DictGet(FieldsOf[ev], "fileName")
MissingFileName(ev) == IsRequest(ev) /\ FileNameOf(ev) \in {None, PyStr("")}
NonEmptyFileName(ev) ==
    IsRequest(ev) /\ FileNameOf(ev).t = "str" /\ FileNameOf(ev).s # ""

\* The text of a success body with these members.
GrantText(url, k, bucket) ==
    "{\"uploadUrl\": \"" \o url \o "\", \"key\": \"" \o k
    \o "\", \"bucket\": \"" \o bucket \o "\"}"

\* The text of a server-error body with these members.
ErrorText(error, message) ==
    "{\"error\": \"" \o error \o "\", \"message\": \"" \o message \o "\"}"

(***************************************************************************)
(* C1: an invocation whose request is missing fileName (absent, null or    *)
(* the empty string), in either input shape, never calls                   *)
(* generate_presigned_url and returns statusCode 400 with the body         *)
(* {"error": "fileName is required"}.                                      *)
(***************************************************************************)
C1_MissingFileNameRejected ==
    \A i \in Invocations :
        (pc[i] # "idle" /\ MissingFileName(event[i])) =>
            /\ calls[i] = <<>>
            /\ Done(i) =>
                /\ StatusCode(i) = 400
                /\ BodyText(i) = "{\"error\": \"fileName is required\"}"

C1_Witness ==
    \E i, j \in Invocations :
        /\ Done(i) /\ event[i] = PyDict(<<Item("fileName", PyStr(""))>>)
        /\ Done(j) /\ event[j] = Wrapped(PyDict(<<Item("fileName", None)>>))
        /\ StatusCode(i) = 400 /\ StatusCode(j) = 400

(***************************************************************************)
(* C2, as stated: every request with a non-empty fileName is answered with *)
(* statusCode 200, a key that is the UTC time formatted                    *)
(* YYYY-MM-DDTHH-MM-SS, "-" and the literal fileName, and the configured   *)
(* bucket.                                                                 *)
(***************************************************************************)
KeyAsSpecified(i) ==
    /\ key[i] = Strftime(readAt[i]) \o "-" \o FileNameOf(event[i]).s
    /\ readAt[i] = ExampleTime - 1 =>
           key[i] = "2025-10-21T10-29-59-" \o FileNameOf(event[i]).s
    /\ readAt[i] = ExampleTime =>
           key[i] = "2025-10-21T10-30-00-" \o FileNameOf(event[i]).s

GrantAsSpecified(i) ==
    /\ StatusCode(i) = 200
    /\ KeyAsSpecified(i)
    /\ \E url \in {PresignedUrl(c) : c \in {calls[i][n] : n \in 1..Len(calls[i])}} :
           BodyText(i) = GrantText(url, key[i], environ["BUCKET_NAME"])

C2_AsStated ==
    \A i \in Invocations :
        (Done(i) /\ NonEmptyFileName(event[i])) => GrantAsSpecified(i)

(***************************************************************************)
(* C2, amended: every request with a non-empty fileName whose signing call *)
(* returns a URL is answered with statusCode 200, that key and the         *)
(* configured bucket.                                                      *)
(***************************************************************************)
C2_GrantWhenSigned ==
    \A i \in Invocations :
        (Done(i) /\ NonEmptyFileName(event[i]) /\ outcome[i] = "url") =>
            GrantAsSpecified(i)

C2_Witness ==
    \E i \in Invocations :
        /\ Done(i) /\ outcome[i] = "url" /\ readAt[i] = ExampleTime
        /\ environ["BUCKET_NAME"] = "my-bucket"
        /\ BodyText(i) = GrantText(PresignedUrl(calls[i][1]),
                                   "2025-10-21T10-30-00-photo.jpg", "my-bucket")

(***************************************************************************)
(* C3: a direct payload and the wrapped payload holding its JSON text,     *)
(* handled at the same clock reading, under the same configuration and     *)
(* with the same collaborator outcome, get identical responses and make    *)
(* the same signing call.                                                  *)
(***************************************************************************)
\* Two invocations were not given different clock readings, nor different
\* collaborator outcomes (an invocation that asked for neither was given none).
SameClockReading(i, j) ==
    readAt[i] = 0 \/ readAt[j] = 0 \/ readAt[i] = readAt[j]
SameCollaboratorOutcome(i, j) ==
    outcome[i] = "none" \/ outcome[j] = "none" \/ outcome[i] = outcome[j]

C3_ShapesEquivalent ==
    \A i, j \in Invocations :
        ( /\ Done(i) /\ Done(j)
          /\ event[i] \in DirectPayloads
          /\ event[j] = Wrapped(event[i])
          /\ SameClockReading(i, j)
          /\ SameCollaboratorOutcome(i, j) ) =>
            /\ response[i] = response[j]
            /\ calls[i] = calls[j]

C3_Witness ==
    \E i, j \in Invocations :
        /\ Done(i) /\ Done(j)
        /\ NonEmptyFileName(event[i]) /\ event[i] \in DirectPayloads
        /\ event[j] = Wrapped(event[i])
        /\ readAt[i] = readAt[j]
        /\ outcome[i] = "url" /\ outcome[j] = "url"
        /\ response[i] = response[j]

(***************************************************************************)
(* C4: when the signing call raises ClientError the handler returns        *)
(* statusCode 500 with error "Failed to generate upload URL" and the       *)
(* collaborator's detail as message, no grant field, and the call is not   *)
(* made again.                                                             *)
(***************************************************************************)
C4_ClientErrorAnswered ==
    \A i \in Invocations :
        outcome[i] = "ClientError" =>
            /\ Done(i)
            /\ StatusCode(i) = 500
            /\ BodyText(i) = ErrorText("Failed to generate upload URL",
                                       ClientErrorDetail)
            /\ Len(calls[i]) = 1

C4_Witness ==
    \E i \in Invocations :
        /\ outcome[i] = "ClientError" /\ Done(i) /\ StatusCode(i) = 500

(***************************************************************************)
(* C5: every response, whatever its status code, carries the same fixed    *)
(* headers, among them Content-Type: application/json,                     *)
(* Access-Control-Allow-Origin: * and                                      *)
(* Access-Control-Allow-Methods: POST, OPTIONS.                            *)
(***************************************************************************)
HeadersOf(i) == DictGet(response[i], "headers")

C5_FixedHeaders ==
    \A i \in Invocations :
        response[i] # Unset =>
            /\ DictGet(HeadersOf(i), "Content-Type") = PyStr("application/json")
            /\ DictGet(HeadersOf(i), "Access-Control-Allow-Origin") = PyStr("*")
            /\ DictGet(HeadersOf(i), "Access-Control-Allow-Methods")
                   = PyStr("POST, OPTIONS")
            /\ \A j \in Invocations :
                   response[j] # Unset => HeadersOf(j) = HeadersOf(i)

C5_Witness ==
    \E i, j \in Invocations :
        /\ Done(i) /\ Done(j)
        /\ StatusCode(i) \in {400, 500} /\ StatusCode(j) = 200
        /\ HeadersOf(i) = HeadersOf(j)

(***************************************************************************)
(* C6: every invocation ends by returning exactly one response and no      *)
(* exception leaves the handler; the response is a complete grant          *)
(* (statusCode 200 with uploadUrl, key and bucket) or an error (statusCode *)
(* 400 or 500 with an error field and no grant field).                     *)
(***************************************************************************)
GrantFields == {"uploadUrl", "key", "bucket"}
ResponseBody(i) == Loads(BodyText(i)).v

IsCompleteGrant(status, b) ==
    /\ status = 200
    /\ \A f \in GrantFields : DictGet(b, f).t = "str"
    /\ ~HasKey(b, "error")

IsErrorResponse(status, b) ==
    /\ status \in {400, 500}
    /\ DictGet(b, "error").t = "str"
    /\ \A f \in GrantFields : ~HasKey(b, f)

CompleteGrant(i) == IsCompleteGrant(StatusCode(i), ResponseBody(i))
ErrorResponse(i) == IsErrorResponse(StatusCode(i), ResponseBody(i))

OneStructuredResponse ==
    \A i \in Invocations :
        /\ pc[i] # "raised"
        /\ response[i] # Unset <=> Done(i)
        /\ Done(i) =>
               LET b == ResponseBody(i)
               IN  IsCompleteGrant(StatusCode(i), b) \/ IsErrorResponse(StatusCode(i), b)

ResponseKept ==
    \A i \in Invocations : response[i] # Unset => response'[i] = response[i]

C6_AlwaysOneResponse == []OneStructuredResponse /\ [][ResponseKept]_vars

C6_Witness ==
    \E i, j \in Invocations :
        /\ Done(i) /\ event[i] = PyList(<<PyStr("photo.jpg")>>) /\ ErrorResponse(i)
        /\ Done(j) /\ outcome[j] = "NoCredentialsError" /\ ErrorResponse(j)

(***************************************************************************)
(* C7: the steps of an invocation follow the order Parse, Validate,        *)
(* DeriveKey, SignRequest, Respond without going back; the signing call is *)
(* made at most once, only for a validated fileName and with the derived   *)
(* key, and never again after it failed; every invocation reaches its      *)
(* response through exactly one of the three exits.                        *)
(***************************************************************************)
StepOrder ==
    { <<"idle", "Validate">>, <<"idle", "done">>,
      <<"Validate", "DeriveKey">>, <<"Validate", "done">>,
      <<"DeriveKey", "SignRequest">>, <<"SignRequest", "done">> }

InOrder == \A i \in Invocations : pc'[i] # pc[i] => <<pc[i], pc'[i]>> \in StepOrder

SignedAtMostOnce ==
    \A i \in Invocations :
        /\ Len(calls[i]) <= 1
        /\ calls[i] # <<>> =>
            /\ file_name[i] # Unset /\ Truthy(file_name[i])
            /\ key[i] # "" /\ calls[i][1].Key = key[i]

OneExit ==
    \A i \in Invocations :
        /\ Done(i) <=> exit[i] \in {"validation", "failure", "success"}
        /\ exit[i] = "validation" => StatusCode(i) = 400 /\ calls[i] = <<>>
        /\ exit[i] = "failure" => StatusCode(i) = 500
        /\ exit[i] = "success" => StatusCode(i) = 200 /\ Len(calls[i]) = 1

C7_LinearSteps ==
    /\ [][InOrder]_vars
    /\ []SignedAtMostOnce
    /\ []OneExit
    /\ \A i \in Invocations : (pc[i] # "idle") ~> Done(i)

C7_Witness ==
    \E i, j \in Invocations :
        /\ exit[i] = "success" /\ Len(calls[i]) = 1
        /\ exit[j] = "failure" /\ Len(calls[j]) = 1

(***************************************************************************)
(* C8: the signing call is put_object / PUT on the configured bucket, the  *)
(* derived key and the configured expiration (3600 seconds when none is    *)
(* configured); a 200 response returns that key, that bucket and the URL   *)
(* the call produced.                                                      *)
(***************************************************************************)
ConfiguredExpiration ==
    IF "URL_EXPIRATION" \in DOMAIN environ /\ environ["URL_EXPIRATION"] = "900"
    THEN 900 ELSE 3600

C8_SigningCallAsConfigured ==
    \A i \in Invocations :
        calls[i] # <<>> =>
            LET c == calls[i][1]
            IN  /\ c.ClientMethod = "put_object" /\ c.HttpMethod = "PUT"
                /\ c.Bucket = environ["BUCKET_NAME"]
                /\ c.Key = key[i]
                /\ c.ExpiresIn = ConfiguredExpiration
                /\ exit[i] = "success" =>
                       BodyText(i) = GrantText(PresignedUrl(c), c.Key, c.Bucket)

C8_Witness ==
    \E i \in Invocations :
        /\ exit[i] = "success"
        /\ calls[i][1].ExpiresIn = 900 /\ calls[i][1].Bucket = "uploads"
        /\ DictGet(ResponseBody(i), "bucket") = PyStr("uploads")

(***************************************************************************)
(* C9: a failure that is neither a validation failure nor a ClientError -  *)
(* a body text that is no JSON, a body or payload that is no object, any   *)
(* other exception - is answered with statusCode 500, the error "Internal  *)
(* server error" and the exception's text as message; a payload that       *)
(* cannot be read leads to no signing call.                                *)
(***************************************************************************)
Unreadable(ev) == ev \in Events /\ FieldsOf[ev].t # "dict"

\* The response text up to the first character of the exception's text.
InternalErrorOpening == "{\"error\": \"Internal server error\", \"message\": \""

InternalError(i) ==
    /\ StatusCode(i) = 500
    /\ StartsWith(BodyText(i), 1, InternalErrorOpening)
    /\ Len(BodyText(i)) > Len(InternalErrorOpening) + Len("\"}")

C9_UnexpectedFailureAnswered ==
    \A i \in Invocations :
        /\ (pc[i] # "idle" /\ Unreadable(event[i])) => calls[i] = <<>>
        /\ Done(i) =>
            /\ Unreadable(event[i]) => InternalError(i)
            /\ (exit[i] = "failure" /\ outcome[i] # "ClientError") => InternalError(i)
            /\ event[i] = PyDict(<<Item("body", PyStr("{\"fileName\": "))>>) =>
                   BodyText(i) = ErrorText("Internal server error",
                                     "Expecting value: line 1 column 14 (char 13)")
            /\ event[i] = PyDict(<<Item("body", PyStr("[\"photo.jpg\"]"))>>) =>
                   BodyText(i) = ErrorText("Internal server error",
                                     "'list' object has no attribute 'get'")

C9_Witness ==
    \E i, j \in Invocations :
        /\ Done(i) /\ event[i] = PyDict(<<Item("body", PyStr("{\"fileName\": "))>>)
        /\ Done(j) /\ event[j] = PyDict(<<Item("body", PyStr("[\"photo.jpg\"]"))>>)
        /\ InternalError(i) /\ InternalError(j)

(***************************************************************************)
(* C10: no two grants carry the same key.                                  *)
(***************************************************************************)
C10_KeysUnique ==
    \A i, j \in Invocations :
        (i # j /\ exit[i] = "success" /\ exit[j] = "success") => key[i] # key[j]

====
